---- MODULE Spec2Model ----
(***************************************************************************)
(* Model of the article clustering pipeline of nieuwschecker:              *)
(*   src/codelocation/defs/assets/staging/clustering.py                    *)
(*       cluster_articles, reconstruct_df_from_articles,                   *)
(*       two_stage_cluster, cross_feed_clusters                            *)
(*   src/matching.py                                                       *)
(*       cluster_articles (single stage), get_cross_feed_clusters          *)
(*                                                                         *)
(* Conventions                                                             *)
(*   - a DataFrame is a sequence of rows (records); row indices are        *)
(*     1-based here and 0-based in the Python code;                        *)
(*   - similarity thresholds are percentages (0.6 is 60); the cosine       *)
(*     similarity of two embeddings is never rounded: it is compared with  *)
(*     a threshold exactly, on the squares;                                *)
(*   - a publish_date is None (Python None / polars null) or <<h>>, a      *)
(*     number of hours since an epoch; max_time_window_hours is None or    *)
(*     <<w>>;                                                              *)
(*   - `feeds` (list(set(...)) in the code, whose order Python does not    *)
(*     fix) is a set;                                                      *)
(*   - polars' sort is called without maintain_order, so rows with equal   *)
(*     keys may come out in either order: every sort takes a flag `rev`    *)
(*     that decides the order of ties, and the actions choose it freely.   *)
(***************************************************************************)
EXTENDS Integers, Sequences, FiniteSets, TLC

(***************************************************************************)
(* Bounds of the model and constants of the program.                       *)
(***************************************************************************)
MaxArticles == 3
MaxSize == 2
Stage1Default == 60
Stage1Strict == 80
Stage2Default == 85
DefaultWindow == 24
DefaultMinFeeds == 2
DefaultMaxClusterSize == 10
LookbackDays == 7
MaxTicks == 2
MaxRuns == 2
MaxFetch == 2
MaxClusters == 3

None == <<>>

Embeddings == {<<1, 0>>, <<1, 1>>, <<0, 1>>}
Feeds == {"nos.nl", "nu.nl", "ad.nl"}
Dates == {None, <<0>>, <<40>>}
Stage1Thresholds == {Stage1Default, Stage1Strict}
Windows == {None, <<DefaultWindow>>}
MinFeedsValues == {1, DefaultMinFeeds}

(* The columns of the input table that the pipeline reads, the ones
   cluster_articles requires, and the columns of the tables it returns:
   the table returned for an input of no rows has no num_feeds column. *)
InputColumns == {"link", "title", "base_url", "publish_date", "embedding"}
required_cols == {"base_url", "title", "link", "embedding"}
EmptyClusterColumns == {"cluster_id", "title", "articles", "num_articles", "feeds"}
ClusterColumns == EmptyClusterColumns \cup {"num_feeds"}

VARIABLES
    df,               \* the input table (add_features): rows link, title, base_url, publish_date, embedding
    df_columns,       \* the columns the input table has
    args,             \* the arguments of the current two_stage_cluster call
    pc,               \* position of the run
    broad_clusters,   \* two_stage_cluster: the Stage-1 table
    refined_clusters, \* two_stage_cluster: the list collected by the Stage-2 loop
    refined_ids,      \* cluster_ids of the Stage-1 rows that Stage 2 re-clustered
    sub_tables,       \* Stage-1 cluster_id -> the sub-cluster table Stage 2 made of it
    all_clusters,     \* the table two_stage_cluster returned
    columns,          \* the columns of all_clusters
    error,            \* the exception that ended the run, or "none"
    cross_feed,       \* the filtered table
    cross_feed_again, \* the filter applied to its own output
    prev_run,         \* the previous two_stage_cluster call on the same df (args and result)
    cluster_table,      \* the persisted cluster table, as the last successful run wrote it
    prev_cluster_table, \* the persisted cluster table that run read
    now,                \* the clock, in hours
    stored,             \* the table of staging/cross_feed_clusters in the store: None or <<table>>
    runs,               \* number of materializations started
    rss_feeds_latest,   \* the table the asset rss_feeds_latest returned
    rss_feeds_historic, \* the stored table of raw/rss_feeds_historic: None or <<table>>
    add_features,       \* the stored table of staging/add_features: None or <<table>>
    merged,             \* timeline: the clusters with their reach shares per label
    blindspot_df,       \* timeline: merged with the two blind-spot flags
    frontpage,          \* timeline: what build_frontpage returned
    ordered_rows        \* publish step: the rows in the order they are rendered

vars == <<df, df_columns, args, pc, broad_clusters, refined_clusters, refined_ids, sub_tables,
          all_clusters, columns, error, cross_feed, cross_feed_again, prev_run,
          cluster_table, prev_cluster_table, now,
          stored, runs, rss_feeds_latest, rss_feeds_historic, add_features,
          merged, blindspot_df, frontpage, ordered_rows>>

merger_vars == <<cluster_table, prev_cluster_table, now>>

store_vars == <<stored, runs>>

feed_vars == <<rss_feeds_latest, rss_feeds_historic, add_features>>

timeline_vars == <<merged, blindspot_df, frontpage, ordered_rows>>

asset_vars == <<store_vars, feed_vars, timeline_vars>>

(* The variables of one clustering run: its tables, and those with the
   exception that ended it. *)
work_vars == <<df, df_columns, args, broad_clusters, refined_clusters, refined_ids, sub_tables,
               all_clusters, columns, cross_feed, cross_feed_again, prev_run>>

run_vars == <<work_vars, error>>

(***************************************************************************)
(* Sequence helpers.                                                       *)
(***************************************************************************)
Reverse(s) == [k \in 1..Len(s) |-> s[Len(s) + 1 - k]]

(***************************************************************************)
(* sklearn cosine_similarity(embeddings)[i, j] >= threshold, exactly.      *)
(***************************************************************************)
Dot(a, b) == a[1] * b[1] + a[2] * b[2]

SimBelow(a, b, threshold) ==
    Dot(a, b) * Dot(a, b) * 100 * 100 < threshold * threshold * Dot(a, a) * Dot(b, b)

SimAtLeast(a, b, threshold) ==
    /\ Dot(a, b) > 0
    /\ Dot(a, b) * Dot(a, b) * 100 * 100 >= threshold * threshold * Dot(a, a) * Dot(b, b)

(***************************************************************************)
(* Union-Find of cluster_articles: find with path compression, union       *)
(* attaching the root of y under the root of x.                            *)
(***************************************************************************)
RECURSIVE find(_, _)
find(parent, x) ==
    IF parent[x] # x
    THEN LET p1 == find(parent, parent[x])
         IN  [p1 EXCEPT ![x] = p1[parent[x]]]
    ELSE parent

union_child(parent, x, y) ==
    LET p1 == find(parent, x)
        root_x == p1[x]
        p2 == find(p1, y)
        root_y == p2[y]
    IN  IF root_x # root_y THEN [p2 EXCEPT ![y] = root_x] ELSE p2

union(parent, x, y) ==
    LET p1 == find(parent, x)
        root_x == p1[x]
        p2 == find(p1, y)
        root_y == p2[y]
    IN  IF root_x # root_y THEN [p2 EXCEPT ![root_y] = root_x] ELSE p2

AbsDiff(a, b) == IF a >= b THEN a - b ELSE b - a

(***************************************************************************)
(* cluster_articles, lines 71-92: the scan of all pairs i < j (ScanPairs    *)
(* the loop over i, ScanRow the loop over j).  The state                   *)
(* of the scan is the parent array and whether the subtraction of a None   *)
(* publish_date has raised TypeError (the scan stops there).               *)
(***************************************************************************)
use_time_constraint(max_time_window_hours, cols) ==
    max_time_window_hours # None /\ "publish_date" \in cols

PairStep_adjacent(rows, cols, st, i, j, similarity_threshold, max_time_window_hours) ==
    IF j = i + 1 /\ SimAtLeast(rows[i].embedding, rows[j].embedding, similarity_threshold)
    THEN [st EXCEPT !.parent = union(st.parent, i, j)]
    ELSE st

PairStep(rows, cols, st, i, j, similarity_threshold, max_time_window_hours) ==
    IF st.raised THEN st
    ELSE IF SimAtLeast(rows[i].embedding, rows[j].embedding, similarity_threshold)
    THEN IF use_time_constraint(max_time_window_hours, cols)
         THEN LET pub_i == rows[i].publish_date
                  pub_j == rows[j].publish_date
              IN  IF pub_i = None \/ pub_j = None
                  THEN [st EXCEPT !.raised = TRUE]
                  ELSE IF AbsDiff(pub_i[1], pub_j[1]) <= max_time_window_hours[1]
                       THEN [st EXCEPT !.parent = union(st.parent, i, j)]
                       ELSE st
         ELSE [st EXCEPT !.parent = union(st.parent, i, j)]
    ELSE st

RECURSIVE ScanRow(_, _, _, _, _, _, _)
ScanRow(rows, cols, st, i, j, similarity_threshold, max_time_window_hours) ==
    IF st.raised \/ j > Len(rows) THEN st
    ELSE ScanRow(rows, cols,
                 PairStep(rows, cols, st, i, j, similarity_threshold, max_time_window_hours),
                 i, j + 1, similarity_threshold, max_time_window_hours)

RECURSIVE ScanPairs(_, _, _, _, _, _)
ScanPairs(rows, cols, st, i, similarity_threshold, max_time_window_hours) ==
    IF st.raised \/ i > Len(rows) THEN st
    ELSE ScanPairs(rows, cols,
                   ScanRow(rows, cols, st, i, i + 1, similarity_threshold, max_time_window_hours),
                   i + 1, similarity_threshold, max_time_window_hours)

(***************************************************************************)
(* cluster_articles, lines 94-109: the clusters dictionary, a list of      *)
(* (root, articles) in the order in which the roots are first met.         *)
(* df.to_dicts() of a table without a publish_date column gives dicts      *)
(* without that key; the absent key is a None here, which is how line 289  *)
(* reads it (art.get('publish_date')).                                     *)
(***************************************************************************)
to_dicts(rows, cols) ==
    [k \in 1..Len(rows) |->
        IF "publish_date" \in cols THEN rows[k] ELSE [rows[k] EXCEPT !.publish_date = None]]

article_data(row) ==
    [title |-> row.title, link |-> row.link, feed |-> row.base_url,
     publish_date |-> row.publish_date]

RECURSIVE BuildClusters(_, _, _, _)
BuildClusters(rows, parent, idx, clusters) ==
    IF idx > Len(rows) THEN clusters
    ELSE LET p1 == find(parent, idx)
             r == p1[idx]
             known == {k \in 1..Len(clusters) : clusters[k].root = r}
             next == IF known = {}
                     THEN Append(clusters, [root |-> r, articles |-> <<article_data(rows[idx])>>])
                     ELSE LET k == CHOOSE k \in known : TRUE
                          IN  [clusters EXCEPT ![k].articles = Append(@, article_data(rows[idx]))]
         IN  BuildClusters(rows, p1, idx + 1, next)

(***************************************************************************)
(* cluster_articles, lines 111-127: one output row per cluster.            *)
(***************************************************************************)
ClusterRow_feed_per_article(cluster_id, articles_in_cluster) ==
    LET feeds == {articles_in_cluster[k].feed : k \in 1..Len(articles_in_cluster)}
    IN  [cluster_id |-> cluster_id,
         title |-> articles_in_cluster[1].title,
         articles |-> articles_in_cluster,
         num_articles |-> Len(articles_in_cluster),
         feeds |-> feeds,
         num_feeds |-> Len(articles_in_cluster)]

ClusterRow_last_title(cluster_id, articles_in_cluster) ==
    LET feeds == {articles_in_cluster[k].feed : k \in 1..Len(articles_in_cluster)}
    IN  [cluster_id |-> cluster_id,
         title |-> articles_in_cluster[Len(articles_in_cluster)].title,
         articles |-> articles_in_cluster,
         num_articles |-> Len(articles_in_cluster),
         feeds |-> feeds,
         num_feeds |-> Cardinality(feeds)]

ClusterRow(cluster_id, articles_in_cluster) ==
    LET feeds == {articles_in_cluster[k].feed : k \in 1..Len(articles_in_cluster)}
    IN  [cluster_id |-> cluster_id,
         title |-> articles_in_cluster[1].title,
         articles |-> articles_in_cluster,
         num_articles |-> Len(articles_in_cluster),
         feeds |-> feeds,
         num_feeds |-> Cardinality(feeds)]

cluster_data(clusters) ==
    [k \in 1..Len(clusters) |-> ClusterRow(k, clusters[k].articles)]

(***************************************************************************)
(* DataFrame.sort("num_articles", descending=True): an insertion sort      *)
(* that keeps ties in the order of `rows`, or in the opposite order when   *)
(* rev is set.                                                             *)
(***************************************************************************)
RECURSIVE InsertDesc(_, _)
InsertDesc(row, sorted) ==
    IF sorted = <<>> THEN <<row>>
    ELSE IF Head(sorted).num_articles >= row.num_articles
         THEN <<Head(sorted)>> \o InsertDesc(row, Tail(sorted))
         ELSE <<row>> \o sorted

RECURSIVE SortStable(_, _)
SortStable(rows, sorted) ==
    IF rows = <<>> THEN sorted ELSE SortStable(Tail(rows), InsertDesc(Head(rows), sorted))

SortDesc(rows, rev) == SortStable(IF rev THEN Reverse(rows) ELSE rows, <<>>)

(***************************************************************************)
(* cluster_articles(df, similarity_threshold, max_time_window_hours).      *)
(* The result is the exception raised, or the table.                       *)
(***************************************************************************)
missing_link_optional(cols) == (required_cols \ {"link"}) \ cols

missing(cols) == required_cols \ cols

cluster_articles(rows, cols, similarity_threshold, max_time_window_hours, rev) ==
    IF Len(rows) = 0
    THEN [error |-> "none", rows |-> <<>>, columns |-> EmptyClusterColumns]
    ELSE IF missing(cols) # {}
    THEN [error |-> "ValueError", rows |-> <<>>, columns |-> {}]
    ELSE LET n == Len(rows)
             st == ScanPairs(rows, cols, [parent |-> [x \in 1..n |-> x], raised |-> FALSE],
                             1, similarity_threshold, max_time_window_hours)
         IN  IF st.raised THEN [error |-> "TypeError", rows |-> <<>>, columns |-> {}]
             ELSE [error |-> "none",
                   rows |-> SortDesc(cluster_data(BuildClusters(to_dicts(rows, cols),
                                                                st.parent, 1, <<>>)), rev),
                   columns |-> ClusterColumns]

(***************************************************************************)
(* reconstruct_df_from_articles: the rows of original_df whose link is     *)
(* the link of one of the articles, in the order of original_df.           *)
(***************************************************************************)
reconstruct_unfiltered(articles, original_df) == original_df

reconstruct_by_feed(articles, original_df) ==
    LET feeds == {articles[k].feed : k \in 1..Len(articles)}
        is_in(row) == row.base_url \in feeds
    IN  SelectSeq(original_df, is_in)

reconstruct_df_from_articles(articles, original_df) ==
    LET links == {articles[k].link : k \in 1..Len(articles)}
        is_in(row) == row.link \in links
    IN  SelectSeq(original_df, is_in)

(***************************************************************************)
(* two_stage_cluster, lines 190-219: the Stage-2 loop over the rows of     *)
(* broad_clusters.  acc.refined is refined_clusters; acc.ids and acc.subs  *)
(* record which rows were re-clustered and into what; a TypeError of the   *)
(* inner cluster_articles ends the loop.                                   *)
(***************************************************************************)
needs_refinement_inclusive(row, max_cluster_size) == row.num_articles >= max_cluster_size

needs_refinement_late(row, max_cluster_size) == row.num_articles > max_cluster_size + 1

needs_refinement_never(row, max_cluster_size) == FALSE

needs_refinement(row, max_cluster_size) == row.num_articles > max_cluster_size

RECURSIVE Stage2Loop(_, _, _, _, _, _, _)
Stage2Loop(original_df, cols, broad, k, a, rev, acc) ==
    IF k > Len(broad) \/ acc.error # "none" THEN acc
    ELSE LET row == broad[k]
         IN  IF needs_refinement(row, a.max_cluster_size)
             THEN LET sub_df == reconstruct_df_from_articles(row.articles, original_df)
                      sub_clusters == cluster_articles(sub_df, cols, a.stage2_threshold,
                                                       a.max_time_window_hours, rev)
                  IN  IF sub_clusters.error # "none"
                      THEN [acc EXCEPT !.error = sub_clusters.error]
                      ELSE Stage2Loop(original_df, cols, broad, k + 1, a, rev,
                               [acc EXCEPT !.refined = @ \o sub_clusters.rows,
                                           !.ids = @ \cup {row.cluster_id},
                                           !.subs = @ \cup {[cluster_id |-> row.cluster_id,
                                                             rows |-> sub_clusters.rows]}])
             ELSE Stage2Loop(original_df, cols, broad, k + 1, a, rev,
                             [acc EXCEPT !.refined = Append(@, row)])

(***************************************************************************)
(* two_stage_cluster, lines 226-233: drop cluster_id, number the rows      *)
(* from 0 in their current order, then sort by num_articles descending.    *)
(***************************************************************************)
with_row_index(rows) == [k \in 1..Len(rows) |-> [rows[k] EXCEPT !.cluster_id = k - 1]]

Reassemble_sort_first(refined, rev) ==
    IF Len(refined) > 0 THEN with_row_index(SortDesc(refined, rev)) ELSE refined

Reassemble_unique_size(refined, rev) ==
    LET sorted == SortDesc(with_row_index(refined), rev)
        first(k) == \A j \in 1..(k - 1) : sorted[j].num_articles # sorted[k].num_articles
        idx == SelectSeq([k \in 1..Len(sorted) |-> k], first)
    IN  [k \in 1..Len(idx) |-> sorted[idx[k]]]

Reassemble(refined, rev) ==
    IF Len(refined) > 0 THEN SortDesc(with_row_index(refined), rev) ELSE refined

(***************************************************************************)
(* two_stage_cluster(df, stage1_threshold, stage2_threshold,               *)
(* max_cluster_size, max_time_window_hours).  Stage 1 calls                *)
(* cluster_articles without a time window (line 186).                      *)
(***************************************************************************)
two_stage_cluster(input_df, cols, a, rev) ==
    LET broad == cluster_articles(input_df, cols, a.stage1_threshold, None, rev)
        loop == Stage2Loop(input_df, cols, broad.rows, 1, a, rev,
                           [refined |-> <<>>, ids |-> {}, subs |-> {}, error |-> broad.error])
    IN  [broad_clusters |-> broad.rows,
         refined_clusters |-> loop.refined,
         refined_ids |-> loop.ids,
         sub_tables |-> loop.subs,
         error |-> loop.error,
         result_df |-> IF loop.error = "none" THEN Reassemble(loop.refined, rev) ELSE <<>>,
         columns |-> IF loop.error = "none" /\ Len(loop.refined) > 0
                     THEN ClusterColumns ELSE {}]

(***************************************************************************)
(* The cross-feed filter: all_clusters.filter(pl.col("num_feeds") >=       *)
(* min_feeds), clustering.py line 275 and matching.py line 120.            *)
(***************************************************************************)
filter_more_feeds(rows, min_feeds) ==
    LET keep(row) == row.num_feeds > min_feeds
    IN  SelectSeq(rows, keep)

filter_skip_first(rows, min_feeds) ==
    LET keep(row) == row.num_feeds >= min_feeds
        kept == SelectSeq(rows, keep)
    IN  IF kept = <<>> THEN kept ELSE Tail(kept)

filter_num_feeds(rows, min_feeds) ==
    LET keep(row) == row.num_feeds >= min_feeds
    IN  SelectSeq(rows, keep)

(***************************************************************************)
(* cross_feed_clusters, lines 283-326: min_published_date,                 *)
(* max_published_date and time_span_hours of every kept row.               *)
(***************************************************************************)
MinOf(S) == CHOOSE x \in S : \A y \in S : x <= y
MaxOf(S) == CHOOSE x \in S : \A y \in S : x >= y

extract_dates_first_last(articles_list) ==
    LET has_date(art) == art.publish_date # None
        dated == SelectSeq(articles_list, has_date)
    IN  IF dated = <<>> THEN <<None, None>>
        ELSE <<dated[1].publish_date, dated[Len(dated)].publish_date>>

extract_dates(articles_list) ==
    LET pub_dates == {articles_list[k].publish_date[1] :
                          k \in {m \in 1..Len(articles_list) : articles_list[m].publish_date # None}}
    IN  IF pub_dates = {} THEN <<None, None>>
        ELSE <<(<<MinOf(pub_dates)>>), (<<MaxOf(pub_dates)>>)>>

with_date_columns(rows) ==
    [k \in 1..Len(rows) |->
        LET d == extract_dates(rows[k].articles)
        IN  [cluster_id |-> rows[k].cluster_id,
             title |-> rows[k].title,
             articles |-> rows[k].articles,
             num_articles |-> rows[k].num_articles,
             feeds |-> rows[k].feeds,
             num_feeds |-> rows[k].num_feeds,
             min_published_date |-> d[1],
             max_published_date |-> d[2],
             time_span_hours |-> IF d[1] # None /\ d[2] # None
                                 THEN <<d[2][1] - d[1][1]>> ELSE None]]

(***************************************************************************)
(* The input tables have unique links: row i has link i and title i.       *)
(* DatedTables: any embedding and publish_date per row, the two outlets    *)
(* taking turns.  FeedTables: any embedding and feed per row, all rows     *)
(* published in the same hour.                                             *)
(***************************************************************************)
InputRow(i, embedding, publish_date, base_url) ==
    [link |-> <<"link", i>>, title |-> <<"title", i>>,
     embedding |-> embedding, publish_date |-> publish_date, base_url |-> base_url]

FeedOf(i) == IF i % 2 = 1 THEN "nos.nl" ELSE "nu.nl"

DatedTables(n, Embs, Ds) ==
    {[i \in 1..n |-> InputRow(i, c[i][1], c[i][2], FeedOf(i))] :
         c \in [1..n -> Embs \X Ds]}

FeedTables(n, Embs, Fs) ==
    {[i \in 1..n |-> InputRow(i, c[i][1], <<0>>, c[i][2])] :
         c \in [1..n -> Embs \X Fs]}

NoArgs == [stage1_threshold |-> 0, stage2_threshold |-> 0, max_cluster_size |-> 0,
           max_time_window_hours |-> None, min_feeds |-> 0]

InitClustering ==
    /\ args = NoArgs
    /\ pc = "start"
    /\ broad_clusters = <<>>
    /\ refined_clusters = <<>>
    /\ refined_ids = {}
    /\ sub_tables = {}
    /\ all_clusters = <<>>
    /\ columns = {}
    /\ error = "none"
    /\ cross_feed = <<>>
    /\ cross_feed_again = <<>>
    /\ prev_run = None
    /\ cluster_table = <<>>
    /\ prev_cluster_table = <<>>
    /\ now = 0

InitStored ==
    /\ stored = None
    /\ runs = 0

InitFeedTables ==
    /\ rss_feeds_latest = <<>>
    /\ rss_feeds_historic = None
    /\ add_features = None

InitTimeline ==
    /\ merged = <<>>
    /\ blindspot_df = <<>>
    /\ frontpage = <<>>
    /\ ordered_rows = <<>>

InitRun ==
    /\ InitClustering
    /\ InitStored
    /\ InitFeedTables
    /\ InitTimeline

Init ==
    /\ \E n \in 0..MaxArticles : df \in DatedTables(n, Embeddings, Dates)
    /\ df_columns = InputColumns
    /\ InitRun

(***************************************************************************)
(* A call two_stage_cluster(df, ...).                                      *)
(***************************************************************************)
TwoStageCluster ==
    /\ pc = "start"
    /\ \E t1 \in Stage1Thresholds, size \in 1..MaxSize, w \in Windows, rev \in BOOLEAN :
          \E a \in {[stage1_threshold |-> t1, stage2_threshold |-> Stage2Default,
                     max_cluster_size |-> size, max_time_window_hours |-> w,
                     min_feeds |-> 0]} :
            \E r \in {two_stage_cluster(df, df_columns, a, rev)} :
              /\ args' = a
              /\ broad_clusters' = r.broad_clusters
              /\ refined_clusters' = r.refined_clusters
              /\ refined_ids' = r.refined_ids
              /\ sub_tables' = r.sub_tables
              /\ all_clusters' = r.result_df
              /\ columns' = r.columns
              /\ error' = r.error
              /\ pc' = IF r.error = "none" THEN "clustered" ELSE "raised"
    /\ UNCHANGED <<merger_vars, asset_vars>>
    /\ UNCHANGED <<df, df_columns, cross_feed, cross_feed_again, prev_run>>

(***************************************************************************)
(* The same call repeated on the same df with a stage1_threshold that is   *)
(* at least the one of the first call, and the other arguments unchanged.  *)
(***************************************************************************)
Recluster ==
    /\ pc = "clustered"
    /\ prev_run = None
    /\ \E t2 \in {t \in Stage1Thresholds : t >= args.stage1_threshold}, rev \in BOOLEAN :
          \E a \in {[args EXCEPT !.stage1_threshold = t2]} :
            \E r \in {two_stage_cluster(df, df_columns, a, rev)} :
              /\ args' = a
              /\ prev_run' = <<[args |-> args, broad_clusters |-> broad_clusters,
                                refined_ids |-> refined_ids, all_clusters |-> all_clusters]>>
              /\ broad_clusters' = r.broad_clusters
              /\ refined_clusters' = r.refined_clusters
              /\ refined_ids' = r.refined_ids
              /\ sub_tables' = r.sub_tables
              /\ all_clusters' = r.result_df
              /\ columns' = r.columns
              /\ error' = r.error
              /\ pc' = IF r.error = "none" THEN "reclustered" ELSE "raised"
    /\ UNCHANGED <<merger_vars, asset_vars>>
    /\ UNCHANGED <<df, df_columns, cross_feed, cross_feed_again>>

(***************************************************************************)
(* cross_feed_clusters after its call of two_stage_cluster, lines 274-326: *)
(* the filter on num_feeds, then the date columns.  The table that         *)
(* two_stage_cluster builds of no rows has no column at all (line 227),    *)
(* and the filter expression then fails on the missing num_feeds.          *)
(***************************************************************************)
CrossFeedFilter ==
    /\ pc = "clustered"
    /\ prev_run = None
    /\ LET min_feeds == DefaultMinFeeds
       IN /\ args' = [args EXCEPT !.min_feeds = min_feeds]
          /\ IF "num_feeds" \notin columns
             THEN /\ error' = "ColumnNotFoundError"
                  /\ pc' = "raised"
                  /\ UNCHANGED cross_feed
             ELSE /\ cross_feed' = with_date_columns(filter_num_feeds(all_clusters, min_feeds))
                  /\ pc' = "filtered"
                  /\ UNCHANGED error
    /\ UNCHANGED <<merger_vars, asset_vars>>
    /\ UNCHANGED <<df, df_columns, broad_clusters, refined_clusters, refined_ids, sub_tables,
                   all_clusters, columns, cross_feed_again, prev_run>>

(***************************************************************************)
(* get_cross_feed_clusters(df, threshold, min_feeds) of src/matching.py:   *)
(* the single-stage cluster_articles (no time window), the early return    *)
(* of an empty table, then the filter.                                     *)
(***************************************************************************)
GetCrossFeedClusters ==
    /\ pc = "start"
    /\ \E threshold \in Stage1Thresholds, min_feeds \in MinFeedsValues, rev \in BOOLEAN :
          \E r \in {cluster_articles(df, df_columns, threshold, None, rev)} :
              /\ args' = [NoArgs EXCEPT !.stage1_threshold = threshold,
                                        !.min_feeds = min_feeds]
              /\ all_clusters' = r.rows
              /\ columns' = r.columns
              /\ error' = r.error
              /\ cross_feed' = IF Len(r.rows) = 0 THEN r.rows
                               ELSE filter_num_feeds(r.rows, min_feeds)
              /\ pc' = IF r.error = "none" THEN "matched" ELSE "raised"
    /\ UNCHANGED <<merger_vars, asset_vars>>
    /\ UNCHANGED <<df, df_columns, broad_clusters, refined_clusters, refined_ids, sub_tables,
                   cross_feed_again, prev_run>>

(***************************************************************************)
(* The filter applied once more, with the same min_feeds, to the table it  *)
(* produced.                                                               *)
(***************************************************************************)
FilterAgain ==
    /\ pc \in {"filtered", "matched"}
    /\ cross_feed_again' = filter_num_feeds(cross_feed, args.min_feeds)
    /\ pc' = IF pc = "filtered" THEN "refiltered" ELSE "rematched"
    /\ UNCHANGED <<merger_vars, asset_vars>>
    /\ UNCHANGED <<df, df_columns, args, broad_clusters, refined_clusters, refined_ids, sub_tables,
                   all_clusters, columns, error, cross_feed, prev_run>>

Next ==
    \/ TwoStageCluster
    \/ Recluster
    \/ CrossFeedFilter
    \/ GetCrossFeedClusters
    \/ FilterAgain

Spec == Init /\ [][Next]_vars

(***************************************************************************)
(* The parts of the pipeline, each on the family of tables that varies     *)
(* what the part depends on.                                               *)
(***************************************************************************)

(* The clustering calls alone, on the tables of Init. *)
NextCluster ==
    \/ TwoStageCluster
    \/ GetCrossFeedClusters

SpecCluster == Init /\ [][NextCluster]_vars

(* The clustering calls on tables of MaxArticles + 1 rows, all of them
   dated, with embeddings of which any two are similar at the default
   stage1_threshold. *)
InitLarger ==
    /\ df \in DatedTables(MaxArticles + 1, {<<1, 0>>, <<1, 1>>}, Dates \ {None})
    /\ df_columns = InputColumns
    /\ InitRun

SpecLarger == InitLarger /\ [][NextCluster]_vars

(* two_stage_cluster called twice, on tables whose rows are all dated. *)
InitDated ==
    /\ \E n \in 0..MaxArticles : df \in DatedTables(n, Embeddings, Dates \ {None})
    /\ df_columns = InputColumns
    /\ InitRun

NextRecluster ==
    \/ TwoStageCluster
    \/ Recluster

SpecRecluster == InitDated /\ [][NextRecluster]_vars

(* Clustering followed by the cross-feed filter, on tables whose feeds vary
   freely. *)
InitFeeds ==
    /\ \E n \in 0..MaxArticles : df \in FeedTables(n, {<<1, 0>>, <<1, 1>>}, Feeds)
    /\ df_columns = InputColumns
    /\ InitRun

NextFilter ==
    \/ TwoStageCluster
    \/ CrossFeedFilter
    \/ GetCrossFeedClusters
    \/ FilterAgain

SpecFeeds == InitFeeds /\ [][NextFilter]_vars

(* Clustering followed by the filter, on tables that have all the columns
   or lack one of them. *)
ColumnSets == {InputColumns \ S : S \in {T \in SUBSET InputColumns : Cardinality(T) <= 1}}

InitColumns ==
    /\ \E n \in 0..MaxArticles : df \in DatedTables(n, {<<1, 0>>, <<1, 1>>}, {None, <<0>>})
    /\ df_columns \in ColumnSets
    /\ InitRun

SpecColumns == InitColumns /\ [][NextFilter]_vars

(* The clustering calls on tables of MaxArticles + 1 rows with one of two
   orthogonal embeddings each, dated or not. *)
InitPairs ==
    /\ df \in DatedTables(MaxArticles + 1, {<<1, 0>>, <<0, 1>>}, {None, <<0>>})
    /\ df_columns = InputColumns
    /\ InitRun

SpecPairs == InitPairs /\ [][NextCluster]_vars

(* Clustering followed by the filter and the date columns, on tables whose
   publish dates vary freely. *)
InitDates ==
    /\ \E n \in 0..MaxArticles : df \in DatedTables(n, {<<1, 0>>, <<1, 1>>}, Dates)
    /\ df_columns = InputColumns
    /\ InitRun

SpecDates == InitDates /\ [][NextFilter]_vars

(***************************************************************************)
(* The five articles A..E (links 1..5): A, B, D, E with the same           *)
(* embedding, C orthogonal to it; publish dates in hours since             *)
(* 2024-01-01T00:00 (C, published 10:30, is similar to no article, so no   *)
(* comparison reads its date: it is kept to the hour); E undated.  The     *)
(* table holds them in any order.                                          *)
(***************************************************************************)
FiveArticles ==
    <<InputRow(1, <<1, 0>>, <<10>>, "nos.nl"),
      InputRow(2, <<1, 0>>, <<11>>, "nu.nl"),
      InputRow(3, <<0, 1>>, <<10>>, "nos.nl"),
      InputRow(4, <<1, 0>>, <<58>>, "ad.nl"),
      InputRow(5, <<1, 0>>, None, "nos.nl")>>

Orders(rows) ==
    {[k \in 1..Len(rows) |-> rows[p[k]]] :
         p \in {q \in [1..Len(rows) -> 1..Len(rows)] :
                    \A x, y \in 1..Len(rows) : x # y => q[x] # q[y]}}

InitFiveArticles ==
    /\ df \in Orders(FiveArticles)
    /\ df_columns = InputColumns
    /\ InitRun

(* A call two_stage_cluster(df, ...) with the arguments a. *)
RunTwoStage(a, rev) ==
    \E r \in {two_stage_cluster(df, df_columns, a, rev)} :
        /\ args' = a
        /\ broad_clusters' = r.broad_clusters
        /\ refined_clusters' = r.refined_clusters
        /\ refined_ids' = r.refined_ids
        /\ sub_tables' = r.sub_tables
        /\ all_clusters' = r.result_df
        /\ columns' = r.columns
        /\ error' = r.error
        /\ pc' = IF r.error = "none" THEN "clustered" ELSE "raised"
        /\ UNCHANGED <<merger_vars, asset_vars>>
        /\ UNCHANGED <<df, df_columns, cross_feed, cross_feed_again, prev_run>>

(* two_stage_cluster(df, stage1_threshold=0.9, max_time_window_hours=24),
   the other arguments at their defaults. *)
ClusterFiveArticles ==
    /\ pc = "start"
    /\ \E rev \in BOOLEAN :
          RunTwoStage([stage1_threshold |-> 90, stage2_threshold |-> Stage2Default,
                       max_cluster_size |-> DefaultMaxClusterSize,
                       max_time_window_hours |-> <<DefaultWindow>>, min_feeds |-> 0], rev)

NextFiveArticles ==
    \/ ClusterFiveArticles
    \/ CrossFeedFilter

SpecFiveArticles == InitFiveArticles /\ [][NextFiveArticles]_vars

(***************************************************************************)
(* Fifteen articles in three groups of five.  The embeddings of a group    *)
(* are equal; those of two groups have cosine similarity 0.894 or 0.6: at  *)
(* least the default stage1_threshold and below a stage2_threshold of      *)
(* 0.95.  A group is published in hour 0 or in hour 20, so that all        *)
(* articles are within the 24-hour window.  The table holds the groups one *)
(* after the other or taking turns, in any order of the groups.            *)
(***************************************************************************)
GroupEmbeddings == <<(<<3, 1>>), (<<1, 1>>), (<<1, 3>>)>>

GroupOf(i, blocked, order) ==
    IF blocked THEN order[((i - 1) \div 5) + 1] ELSE order[((i - 1) % 3) + 1]

FifteenArticleTables ==
    {[i \in 1..15 |->
         InputRow(i, GroupEmbeddings[GroupOf(i, c[1], c[2])], c[3][GroupOf(i, c[1], c[2])], FeedOf(i))] :
         c \in BOOLEAN \X {q \in [1..3 -> 1..3] : \A x, y \in 1..3 : x # y => q[x] # q[y]}
                       \X [1..3 -> {<<0>>, <<20>>}]}

InitFifteenArticles ==
    /\ df \in FifteenArticleTables
    /\ df_columns = InputColumns
    /\ InitRun

(* two_stage_cluster(df, stage2_threshold=0.95), the other arguments at
   their defaults (max_cluster_size 10, 24 hours). *)
ClusterFifteenArticles ==
    /\ pc = "start"
    /\ \E rev \in BOOLEAN :
          RunTwoStage([stage1_threshold |-> Stage1Default, stage2_threshold |-> 95,
                       max_cluster_size |-> DefaultMaxClusterSize,
                       max_time_window_hours |-> <<DefaultWindow>>, min_feeds |-> 0], rev)

NextFifteenArticles ==
    \/ ClusterFifteenArticles
    \/ CrossFeedFilter

SpecFifteenArticles == InitFifteenArticles /\ [][NextFifteenArticles]_vars

(***************************************************************************)
(* cross_feed_clusters run a second time on the same add_features table    *)
(* (two_stage_cluster with the same arguments, the filter, the date        *)
(* columns); the sorts of the second run order their ties freely.          *)
(***************************************************************************)
RunAgain ==
    /\ pc = "filtered"
    /\ prev_run = None
    /\ \E rev \in BOOLEAN :
          \E r \in {two_stage_cluster(df, df_columns, args, rev)} :
              /\ prev_run' = <<[all_clusters |-> all_clusters, cross_feed |-> cross_feed]>>
              /\ broad_clusters' = r.broad_clusters
              /\ refined_clusters' = r.refined_clusters
              /\ refined_ids' = r.refined_ids
              /\ sub_tables' = r.sub_tables
              /\ all_clusters' = r.result_df
              /\ columns' = r.columns
              /\ IF r.error # "none"
                 THEN error' = r.error /\ pc' = "raised" /\ cross_feed' = <<>>
                 ELSE IF "num_feeds" \notin r.columns
                 THEN error' = "ColumnNotFoundError" /\ pc' = "raised" /\ cross_feed' = <<>>
                 ELSE /\ error' = "none"
                      /\ pc' = "rerun"
                      /\ cross_feed' = with_date_columns(filter_num_feeds(r.result_df, args.min_feeds))
    /\ UNCHANGED <<merger_vars, asset_vars>>
    /\ UNCHANGED <<df, df_columns, args, cross_feed_again>>

InitRerun ==
    /\ df \in DatedTables(MaxArticles + 1, {<<1, 0>>, <<1, 1>>}, {<<0>>, <<40>>})
    /\ df_columns = InputColumns
    /\ InitRun

NextRerun ==
    \/ TwoStageCluster
    \/ CrossFeedFilter
    \/ RunAgain

SpecRerun == InitRerun /\ [][NextRerun]_vars

(* cluster_articles called on df and on the same rows in another order,
   with the same arguments; rev is the order polars gives to ties in the
   final sort of the two calls. *)
ClusterPermuted ==
    /\ pc = "start"
    /\ \E permuted \in Orders(df), threshold \in Stage1Thresholds, w \in Windows,
          rev \in BOOLEAN :
          \E r1 \in {cluster_articles(df, df_columns, threshold, w, rev)},
             r2 \in {cluster_articles(permuted, df_columns, threshold, w, rev)} :
              /\ args' = [NoArgs EXCEPT !.stage1_threshold = threshold,
                                        !.max_time_window_hours = w]
              /\ all_clusters' = r1.rows
              /\ columns' = r1.columns
              /\ error' = r1.error
              /\ prev_run' = <<[df |-> permuted, all_clusters |-> r2.rows, error |-> r2.error]>>
              /\ pc' = "permuted"
    /\ UNCHANGED <<merger_vars, asset_vars>>
    /\ UNCHANGED <<df, df_columns, broad_clusters, refined_clusters, refined_ids, sub_tables,
                   cross_feed, cross_feed_again>>

NextPermuted ==
    \/ ClusterPermuted

SpecPermuted == Init /\ [][NextPermuted]_vars

(***************************************************************************)
(* The incremental cluster merger (spec sections 3 and 4.4); its code is   *)
(* not among the source files, and it is modelled from its contract.  A    *)
(* run re-clusters the articles published inside the lookback window with  *)
(* the pipeline of cross_feed_clusters, carries forward the persisted      *)
(* clusters whose max_published_date is before the lookback boundary, and  *)
(* writes the union of the two, deduplicated by (title,                    *)
(* max_published_date); of two rows with the same key the first is kept.   *)
(* A run that raises writes nothing.                                       *)
(***************************************************************************)
lookback_boundary(t) == t - LookbackDays * 24

within_lookback(rows, boundary) ==
    LET recent(row) == row.publish_date # None /\ row.publish_date[1] >= boundary
    IN  SelectSeq(rows, recent)

historic_none(table, boundary) == <<>>

historic_to_match(table, boundary) ==
    LET settled(row) == row.max_published_date # None /\ row.max_published_date[1] < boundary
    IN  SelectSeq(table, settled)

DedupKey(row) == <<row.title, row.max_published_date>>

unique_by_title(rows) ==
    LET first(k) == \A j \in 1..(k - 1) : rows[j].title # rows[k].title
        idx == SelectSeq([k \in 1..Len(rows) |-> k], first)
    IN  [k \in 1..Len(idx) |-> rows[idx[k]]]

unique_by_key(rows) ==
    LET first(k) == \A j \in 1..(k - 1) : DedupKey(rows[j]) # DedupKey(rows[k])
        idx == SelectSeq([k \in 1..Len(rows) |-> k], first)
    IN  [k \in 1..Len(idx) |-> rows[idx[k]]]

merge_clusters(historic, fresh) == unique_by_key(historic \o fresh)

AssetArgs == [stage1_threshold |-> Stage1Default, stage2_threshold |-> Stage2Default,
              max_cluster_size |-> DefaultMaxClusterSize,
              max_time_window_hours |-> <<DefaultWindow>>, min_feeds |-> DefaultMinFeeds]

(* The articles that arrive: one of two orthogonal embeddings, one of two
   titles, published at the hour of arrival, the two outlets taking turns. *)
ArticleKinds == {<<(<<1, 0>>), "t1">>, <<(<<0, 1>>), "t1">>, <<(<<0, 1>>), "t2">>}

ClearRun ==
    /\ args' = NoArgs
    /\ pc' = "start"
    /\ broad_clusters' = <<>>
    /\ refined_clusters' = <<>>
    /\ refined_ids' = {}
    /\ sub_tables' = {}
    /\ all_clusters' = <<>>
    /\ columns' = {}
    /\ error' = "none"
    /\ cross_feed' = <<>>

(* An article is appended to the feature table. *)
Ingest ==
    /\ Len(df) < MaxArticles + 1
    /\ \E kind \in ArticleKinds :
          df' = Append(df, [InputRow(Len(df) + 1, kind[1], <<now>>, FeedOf(Len(df) + 1))
                               EXCEPT !.title = kind[2]])
    /\ ClearRun
    /\ UNCHANGED <<df_columns, cross_feed_again, prev_run, cluster_table, prev_cluster_table, now>>
    /\ UNCHANGED asset_vars

(* Time passes, 100 hours at a time: more than half of the lookback window
   and less than the whole of it. *)
Tick ==
    /\ now < MaxTicks * 100
    /\ now' = now + 100
    /\ ClearRun
    /\ UNCHANGED <<df, df_columns, cross_feed_again, prev_run, cluster_table, prev_cluster_table>>
    /\ UNCHANGED asset_vars

(* One scheduled run: r is what two_stage_cluster returned for the articles
   of the lookback window; the filter fails on a table without num_feeds
   (clustering.py line 275). *)
merge_run(r, table, boundary) ==
    LET raised == IF r.error # "none" THEN r.error
                  ELSE IF "num_feeds" \notin r.columns THEN "ColumnNotFoundError"
                  ELSE "none"
        fresh == with_date_columns(filter_num_feeds(r.result_df, AssetArgs.min_feeds))
    IN  [error |-> raised,
         two_stage |-> r,
         cross_feed |-> IF raised = "none" THEN fresh ELSE <<>>,
         cluster_table |-> IF raised = "none"
                           THEN merge_clusters(historic_to_match(table, boundary), fresh)
                           ELSE table]

MergeRun ==
    /\ \E rev \in BOOLEAN :
          \E m \in {merge_run(two_stage_cluster(within_lookback(df, lookback_boundary(now)),
                                                 df_columns, AssetArgs, rev),
                               cluster_table, lookback_boundary(now))} :
              /\ args' = AssetArgs
              /\ broad_clusters' = m.two_stage.broad_clusters
              /\ refined_clusters' = m.two_stage.refined_clusters
              /\ refined_ids' = m.two_stage.refined_ids
              /\ sub_tables' = m.two_stage.sub_tables
              /\ all_clusters' = m.two_stage.result_df
              /\ columns' = m.two_stage.columns
              /\ error' = m.error
              /\ cross_feed' = m.cross_feed
              /\ cluster_table' = m.cluster_table
              /\ prev_cluster_table' = IF m.error = "none" THEN cluster_table
                                       ELSE prev_cluster_table
              /\ pc' = IF m.error = "none" THEN "merged" ELSE "raised"
    /\ UNCHANGED <<df, df_columns, cross_feed_again, prev_run, now>>
    /\ UNCHANGED asset_vars

InitMerge ==
    /\ df = <<>>
    /\ df_columns = InputColumns
    /\ InitRun

NextMerge ==
    \/ Ingest
    \/ Tick
    \/ MergeRun

SpecMerge == InitMerge /\ [][NextMerge]_vars

(***************************************************************************)
(* Materializations of the asset cross_feed_clusters, one after another:   *)
(* the asset function runs on the table it is given and, when it returns,  *)
(* PostgresPolarsIOManager.handle_output stores the returned table with    *)
(* create_table(..., overwrite=True); a run that raises returns nothing to *)
(* store.                                                                  *)
(***************************************************************************)
StoreTables == UNION {DatedTables(n, {<<1, 0>>, <<0, 1>>}, {<<0>>}) : n \in 0..MaxArticles}

StoreColumnSets == {InputColumns, InputColumns \ {"link"}}

handle_output_append(table, obj) == IF table = None THEN <<obj>> ELSE <<table[1] \o obj>>

handle_output(table, obj) == <<obj>>

(* The body of the asset up to the filter: two_stage_cluster with the
   asset's arguments. *)
ClusterAsset ==
    /\ pc = "start"
    /\ \E rev \in BOOLEAN : RunTwoStage(AssetArgs, rev)

HandleOutput ==
    /\ pc = "filtered"
    /\ stored' = handle_output(stored, cross_feed)
    /\ pc' = "stored"
    /\ UNCHANGED <<run_vars, runs, merger_vars, feed_vars, timeline_vars>>

(* The next materialization starts, on another input table. *)
StartRun ==
    /\ pc \in {"stored", "raised"}
    /\ runs + 1 < MaxRuns
    /\ runs' = runs + 1
    /\ df' \in StoreTables
    /\ df_columns' \in StoreColumnSets
    /\ ClearRun
    /\ UNCHANGED <<cross_feed_again, prev_run, stored, merger_vars, feed_vars, timeline_vars>>

InitStore ==
    /\ df \in StoreTables
    /\ df_columns \in StoreColumnSets
    /\ InitRun

NextStore ==
    \/ ClusterAsset
    \/ CrossFeedFilter
    \/ HandleOutput
    \/ StartRun

SpecStore == InitStore /\ [][NextStore]_vars

(***************************************************************************)
(* The hourly job on the article tables: rss_feeds_latest fetches the      *)
(* feeds, rss_feeds_historic merges the fetch into its own previous table, *)
(* add_features (the incremental one of App/core) computes features for    *)
(* the links it has not processed yet.                                     *)
(*   - an article row is [link, publish_date, ingestion_timestamp]; the    *)
(*     ingestion_timestamp (datetime.now()) is the number of the job;      *)
(*   - context.load_asset_value(key) returns the stored table of the asset *)
(*     or raises: it raises when the asset was never stored, and whether   *)
(*     it raises otherwise is not decided by the code of the repository,   *)
(*     so the actions take either outcome.                                 *)
(***************************************************************************)
Links == {"a", "b", "c"}

ArticleRow(link, publish_date, stamp) ==
    [link |-> link, publish_date |-> publish_date, ingestion_timestamp |-> stamp]

LinksOfTable(rows) == {rows[k].link : k \in 1..Len(rows)}

UniqueLinks(rows) == \A i, j \in 1..Len(rows) : rows[i].link = rows[j].link => i = j

(* What rss_feeds_latest can return in job number `stamp`: at most
   MaxFetch articles, one row per link (it ends with unique(subset=link)),
   all with the same ingestion_timestamp. *)
LatestTables(stamp) ==
    UNION {{[i \in 1..n |-> ArticleRow(c[i][1], c[i][2], stamp)] :
               c \in {f \in [1..n -> Links \X {None, <<stamp>>}] :
                         \A i, j \in 1..n : f[i][1] = f[j][1] => i = j}} :
           n \in 0..MaxFetch}

(* polars unique(subset=["link"], keep="first"): the first row of every
   link; without maintain_order the order of the result is not fixed. *)
unique_keep_first(rows, rev) ==
    LET kept == SelectSeq([k \in 1..Len(rows) |-> [k |-> k, row |-> rows[k]]],
                          LAMBDA e : \A j \in 1..(e.k - 1) : rows[j].link # e.row.link)
        out == [k \in 1..Len(kept) |-> kept[k].row]
    IN  IF rev THEN Reverse(out) ELSE out

load_asset_value(table, fails) ==
    IF table = None \/ fails
    THEN [raised |-> TRUE, value |-> <<>>]
    ELSE [raised |-> FALSE, value |-> table[1]]

(* rss_feeds_historic(context, rss_feeds_latest): the returned table. *)
historic_table(loaded, latest, rev) ==
    IF loaded.raised
    THEN latest
    ELSE unique_keep_first(loaded.value \o latest, rev)

(* gen_features_batch: the features are a function of the article's text. *)
gen_features(row) ==
    [link |-> row.link, publish_date |-> row.publish_date,
     ingestion_timestamp |-> row.ingestion_timestamp, embedding |-> <<"embedding", row.link>>]

added_missing_publish_date(row) ==
    [row EXCEPT !.publish_date = IF row.publish_date = None
                                 THEN <<row.ingestion_timestamp>> ELSE row.publish_date]

new_articles(historic, processed) ==
    SelectSeq(historic, LAMBDA row : row.link \notin LinksOfTable(processed))

(* add_features(context, rss_feeds_historic) once its own previous table
   is loaded. *)
features_table(processed, historic) ==
    LET fresh == new_articles(historic, processed)
    IN  processed \o [k \in 1..Len(fresh) |-> added_missing_publish_date(gen_features(fresh[k]))]

FetchLatest ==
    /\ pc = "start"
    /\ rss_feeds_latest' \in LatestTables(runs)
    /\ pc' = "fetched"
    /\ UNCHANGED <<run_vars, merger_vars, store_vars, timeline_vars, rss_feeds_historic,
                   add_features>>

RunHistoric ==
    /\ pc = "fetched"
    /\ \E fails, rev \in BOOLEAN :
          rss_feeds_historic' =
              <<historic_table(load_asset_value(rss_feeds_historic, fails), rss_feeds_latest, rev)>>
    /\ pc' = "historic"
    /\ UNCHANGED <<run_vars, merger_vars, store_vars, timeline_vars, rss_feeds_latest,
                   add_features>>

RunAddFeatures ==
    /\ pc = "historic"
    /\ \E fails \in BOOLEAN :
          \E loaded \in {load_asset_value(add_features, fails)} :
              IF loaded.raised
              THEN /\ error' = "LoadError"
                   /\ pc' = "raised"
                   /\ UNCHANGED add_features
              ELSE /\ add_features' = <<features_table(loaded.value, rss_feeds_historic[1])>>
                   /\ pc' = "featured"
                   /\ UNCHANGED error
    /\ UNCHANGED <<work_vars, merger_vars, store_vars, timeline_vars, rss_feeds_latest,
                   rss_feeds_historic>>

(* The schedule starts the next job. *)
StartJob ==
    /\ pc \in {"featured", "raised"}
    /\ runs + 1 < MaxRuns
    /\ runs' = runs + 1
    /\ pc' = "start"
    /\ error' = "none"
    /\ UNCHANGED <<work_vars, merger_vars, stored, timeline_vars, feed_vars>>

(* Before the first job nothing is stored for rss_feeds_historic; the
   table of add_features is absent, or is the one the earlier,
   non-incremental add_features stored for an empty article table. *)
InitJobs ==
    /\ df = <<>>
    /\ df_columns = InputColumns
    /\ InitClustering
    /\ InitStored
    /\ InitTimeline
    /\ rss_feeds_latest = <<>>
    /\ rss_feeds_historic = None
    /\ add_features \in {None, <<(<<>>)>>}

NextJobs ==
    \/ FetchLatest
    \/ RunHistoric
    \/ RunAddFeatures
    \/ StartJob

SpecJobs == InitJobs /\ [][NextJobs]_vars

(***************************************************************************)
(* The blind-spot flags: add_blindspot_flags of App/core timeline.py and   *)
(* step 7 of the timeline asset of codelocation, then the row lists of the *)
(* publish step.                                                           *)
(*   - a reach share is None (the pivot has no value for a label no feed   *)
(*     of the cluster carries) or <<p>>, a percentage: reach_perc is       *)
(*     rounded to two decimals, and 0.6 is 60;                             *)
(*   - a comparison with a null is null, and pl.when(...) takes the        *)
(*     otherwise branch unless its condition is true: a flag is 1 exactly  *)
(*     when every conjunct is true;                                        *)
(*   - pl.sum_horizontal ignores nulls, pl.col(a) + pl.col(b) is null      *)
(*     when either is.                                                     *)
(***************************************************************************)
ShareValues == {0, 15, 35, 65, 75}

Shares == {None} \cup {<<p>> : p \in ShareValues}

ArticleCounts == {3, 8}

ClusterReach(cluster_id, num_articles, v) ==
    [cluster_id |-> cluster_id, num_articles |-> num_articles,
     left |-> v[1], centre_left |-> v[2], centre |-> v[3], centre_right |-> v[4], right |-> v[5]]

sum_horizontal(a, b) ==
    (IF a = None THEN 0 ELSE a[1]) + (IF b = None THEN 0 ELSE b[1])

(* col < bound and col > bound as pl.when reads them: true or not. *)
lt(a, bound) == a # None /\ a[1] < bound

plus_gt(a, b, bound) == a # None /\ b # None /\ a[1] + b[1] > bound

flags_overlapping(row) ==
    [blindspot_left |-> IF sum_horizontal(row.centre_right, row.right) > 10 THEN 1 ELSE 0,
     blindspot_right |-> IF sum_horizontal(row.left, row.centre_left) > 30 THEN 1 ELSE 0]

(* App/core timeline.py lines 120-136. *)
flags(row) ==
    LET centre_guard == lt(row.centre, 70)
    IN  [blindspot_left |->
             IF /\ sum_horizontal(row.centre_right, row.right) > 60
                /\ sum_horizontal(row.left, row.centre_left) < 40
                /\ centre_guard
             THEN 1 ELSE 0,
         blindspot_right |->
             IF /\ sum_horizontal(row.right, row.centre_right) < 20
                /\ sum_horizontal(row.left, row.centre_left) > 30
                /\ centre_guard
             THEN 1 ELSE 0]

(* codelocation timeline.py lines 93-107. *)
timeline_flags(row) ==
    [blindspot_left |->
         IF /\ sum_horizontal(row.left, row.centre_left) < 20
            /\ plus_gt(row.centre_right, row.right, 80)
         THEN 1 ELSE 0,
     blindspot_right |->
         IF /\ sum_horizontal(row.right, row.centre_right) < 20
            /\ sum_horizontal(row.left, row.centre_left) > 30
            /\ row.num_articles > 5
         THEN 1 ELSE 0]

WithFlags(row, f) ==
    [cluster_id |-> row.cluster_id, num_articles |-> row.num_articles,
     left |-> row.left, centre_left |-> row.centre_left, centre |-> row.centre,
     centre_right |-> row.centre_right, right |-> row.right,
     blindspot_left |-> f.blindspot_left, blindspot_right |-> f.blindspot_right]

add_blindspot_flags(rows) == [k \in 1..Len(rows) |-> WithFlags(rows[k], flags(rows[k]))]

timeline_step7(rows) == [k \in 1..Len(rows) |-> WithFlags(rows[k], timeline_flags(rows[k]))]

(* publish_timeline.py lines 657-683: the three row lists and the loop
   that takes from left_rows and right_rows in turn. *)
RECURSIVE interleave(_, _, _, _, _, _)
interleave(left_rows, right_rows, li, ri, toggle, ordered) ==
    IF ~(li < Len(left_rows) \/ ri < Len(right_rows)) THEN ordered
    ELSE IF toggle = "left" /\ li < Len(left_rows)
    THEN interleave(left_rows, right_rows, li + 1, ri, "right", Append(ordered, left_rows[li + 1]))
    ELSE IF toggle = "right" /\ ri < Len(right_rows)
    THEN interleave(left_rows, right_rows, li, ri + 1, "left", Append(ordered, right_rows[ri + 1]))
    ELSE IF li < Len(left_rows)
    THEN interleave(left_rows, right_rows, li + 1, ri, toggle, Append(ordered, left_rows[li + 1]))
    ELSE interleave(left_rows, right_rows, li, ri + 1, toggle, Append(ordered, right_rows[ri + 1]))

publish_rows(rows) ==
    LET left_rows == SelectSeq(rows, LAMBDA r : r.blindspot_left = 1)
        right_rows == SelectSeq(rows, LAMBDA r : r.blindspot_right = 1)
        normal_rows == SelectSeq(rows, LAMBDA r : r.blindspot_left # 1 /\ r.blindspot_right # 1)
    IN  interleave(left_rows, right_rows, 0, 0, "left", <<>>) \o normal_rows

(* The tables the flag step is given: a cluster with any reach-share
   vector next to the cluster with the mirrored vector (left and right,
   centre left and centre right exchanged), or up to MaxClusters clusters
   with vectors of SampleVectors (right-heavy, left-heavy,
   centre-dominant, no labelled feed). *)
Vectors == [1..5 -> Shares]

MirrorVector(v) == <<v[5], v[4], v[3], v[2], v[1]>>

SampleVectors ==
    {<<(<<0>>), (<<15>>), (<<15>>), None, (<<75>>)>>,
     <<(<<35>>), (<<35>>), (<<15>>), (<<15>>), None>>,
     <<(<<15>>), None, (<<75>>), (<<15>>), None>>,
     <<None, None, None, None, None>>}

ReachTables ==
    {<<ClusterReach(1, c, v), ClusterReach(2, c, MirrorVector(v))>> :
         c \in ArticleCounts, v \in Vectors}
        \cup UNION {{[k \in 1..n |-> ClusterReach(k, 8, f[k])] : f \in [1..n -> SampleVectors]} :
                     n \in 2..MaxClusters}

AddBlindspotFlags ==
    /\ pc = "start"
    /\ blindspot_df' = add_blindspot_flags(merged)
    /\ pc' = "flagged"
    /\ UNCHANGED <<run_vars, merger_vars, store_vars, feed_vars, merged, frontpage, ordered_rows>>

TimelineStep7 ==
    /\ pc = "start"
    /\ blindspot_df' = timeline_step7(merged)
    /\ pc' = "flagged"
    /\ UNCHANGED <<run_vars, merger_vars, store_vars, feed_vars, merged, frontpage, ordered_rows>>

PublishRows ==
    /\ pc = "flagged"
    /\ ordered_rows' = publish_rows(blindspot_df)
    /\ pc' = "published"
    /\ UNCHANGED <<run_vars, merger_vars, store_vars, feed_vars, merged, blindspot_df, frontpage>>

InitFlags ==
    /\ df = <<>>
    /\ df_columns = InputColumns
    /\ InitClustering
    /\ InitStored
    /\ InitFeedTables
    /\ merged \in ReachTables
    /\ blindspot_df = <<>>
    /\ frontpage = <<>>
    /\ ordered_rows = <<>>

NextFlags ==
    \/ AddBlindspotFlags
    \/ TimelineStep7
    \/ PublishRows

SpecFlags == InitFlags /\ [][NextFlags]_vars

(***************************************************************************)
(* build_frontpage(blindspot_df, n) of App/core timeline.py, lines         *)
(* 139-184.  A row is [cluster_id, blindspot_left, blindspot_right,        *)
(* num_feeds, max_published_date]; the date is a number of hours.  Both    *)
(* sorts of top() are polars sorts without maintain_order: rev_feeds and   *)
(* rev_date decide the order of their ties.                                *)
(***************************************************************************)
FrontRow(cluster_id, kind) ==
    [cluster_id |-> cluster_id,
     blindspot_left |-> IF kind[1] = "left" THEN 1 ELSE 0,
     blindspot_right |-> IF kind[1] = "right" THEN 1 ELSE 0,
     num_feeds |-> kind[2], max_published_date |-> kind[3]]

FrontKinds == ({"left", "right"} \X {2, 3} \X {1, 2}) \cup {<<"none", 3, 2>>}

(* rows.sort(key, descending=True), the key being num_feeds or
   max_published_date. *)
RECURSIVE insert_desc(_, _)
insert_desc(e, sorted) ==
    IF sorted = <<>> THEN <<e>>
    ELSE IF Head(sorted).key >= e.key
         THEN <<Head(sorted)>> \o insert_desc(e, Tail(sorted))
         ELSE <<e>> \o sorted

RECURSIVE sort_keyed(_, _)
sort_keyed(keyed, sorted) ==
    IF keyed = <<>> THEN sorted ELSE sort_keyed(Tail(keyed), insert_desc(Head(keyed), sorted))

sort_by_num_feeds(rows, rev) ==
    LET keyed == [k \in 1..Len(rows) |-> [key |-> rows[k].num_feeds, row |-> rows[k]]]
        sorted == sort_keyed(IF rev THEN Reverse(keyed) ELSE keyed, <<>>)
    IN  [k \in 1..Len(sorted) |-> sorted[k].row]

sort_by_max_published_date(rows, rev) ==
    LET keyed == [k \in 1..Len(rows) |-> [key |-> rows[k].max_published_date, row |-> rows[k]]]
        sorted == sort_keyed(IF rev THEN Reverse(keyed) ELSE keyed, <<>>)
    IN  [k \in 1..Len(sorted) |-> sorted[k].row]

head(rows, n) == SubSeq(rows, 1, IF n < Len(rows) THEN n ELSE Len(rows))

top(rows, flag, n, rev_feeds, rev_date) ==
    LET flagged == SelectSeq(rows, LAMBDA r : IF flag = "blindspot_left"
                                              THEN r.blindspot_left = 1
                                              ELSE r.blindspot_right = 1)
    IN  sort_by_max_published_date(head(sort_by_num_feeds(flagged, rev_feeds), n \div 2),
                                   rev_date)

(* concat of the two tops with their row index idx and src 0 / 1, sorted by
   (idx, src): for every rank the left row, then the right row. *)
RECURSIVE by_idx_src(_, _, _)
by_idx_src(left_top, right_top, idx) ==
    IF idx > Len(left_top) /\ idx > Len(right_top) THEN <<>>
    ELSE (IF idx <= Len(left_top) THEN <<left_top[idx]>> ELSE <<>>)
             \o (IF idx <= Len(right_top) THEN <<right_top[idx]>> ELSE <<>>)
             \o by_idx_src(left_top, right_top, idx + 1)

build_frontpage(rows, n, rev_feeds, rev_date) ==
    by_idx_src(top(rows, "blindspot_left", n, rev_feeds, rev_date),
               top(rows, "blindspot_right", n, rev_feeds, rev_date), 1)

BuildFrontpage ==
    /\ pc = "start"
    /\ \E n \in 0..(MaxClusters + 1), rev_feeds, rev_date \in BOOLEAN :
          /\ args' = [n |-> n]
          /\ frontpage' = build_frontpage(blindspot_df, n, rev_feeds, rev_date)
    /\ pc' = "frontpage"
    /\ UNCHANGED <<df, df_columns, broad_clusters, refined_clusters, refined_ids, sub_tables,
                   all_clusters, columns, cross_feed, cross_feed_again, prev_run, error>>
    /\ UNCHANGED <<merger_vars, store_vars, feed_vars, merged, blindspot_df, ordered_rows>>

InitFrontpage ==
    /\ df = <<>>
    /\ df_columns = InputColumns
    /\ InitClustering
    /\ InitStored
    /\ InitFeedTables
    /\ merged = <<>>
    /\ \E n \in 0..(MaxClusters + 1) : \E kinds \in [1..n -> FrontKinds] :
          blindspot_df = [k \in 1..n |-> FrontRow(k, kinds[k])]
    /\ frontpage = <<>>
    /\ ordered_rows = <<>>

NextFrontpage ==
    \/ BuildFrontpage

SpecFrontpage == InitFrontpage /\ [][NextFrontpage]_vars

(***************************************************************************)
(* Vocabulary of the properties.                                           *)
(***************************************************************************)
Returned == pc \in {"clustered", "filtered", "refiltered", "reclustered"}

LinksOf(row) == {row.articles[m].link : m \in 1..Len(row.articles)}

Partition(rows) == {LinksOf(rows[k]) : k \in 1..Len(rows)}

Occurrences(rows, link) ==
    Cardinality({km \in UNION {{<<k, m>> : m \in 1..Len(rows[k].articles)} : k \in 1..Len(rows)} :
                    rows[km[1]].articles[km[2]].link = link})

InputLinks == {df[i].link : i \in 1..Len(df)}

RowOfLink(link) == CHOOSE i \in 1..Len(df) : df[i].link = link

SameContent(a, b) ==
    /\ a.articles = b.articles
    /\ a.title = b.title
    /\ a.feeds = b.feeds
    /\ a.num_articles = b.num_articles
    /\ a.num_feeds = b.num_feeds

Refines(fine, coarse) == \A c \in fine : \E d \in coarse : c \subseteq d

(* C1: whenever two_stage_cluster returns, its clusters partition the input:
   every input link occurs exactly once in the articles of the output rows,
   and the output holds no other article. *)
C1_Partition ==
    Returned =>
        /\ \A link \in InputLinks : Occurrences(all_clusters, link) = 1
        /\ UNION Partition(all_clusters) = InputLinks

C1_Witness ==
    /\ pc = "clustered"
    /\ refined_ids # {}
    /\ Len(broad_clusters) >= 2
    /\ Len(all_clusters) > Len(broad_clusters)

(***************************************************************************)
(* The edge graph of the clustering contract and its connected             *)
(* components, computed by growing reachable sets (no Union-Find).  A      *)
(* None publish_date is comparable with nothing.                           *)
(***************************************************************************)
Edge(rows, i, j, threshold, window) ==
    /\ i # j
    /\ SimAtLeast(rows[i].embedding, rows[j].embedding, threshold)
    /\ \/ window = None
       \/ /\ rows[i].publish_date # None
          /\ rows[j].publish_date # None
          /\ AbsDiff(rows[i].publish_date[1], rows[j].publish_date[1]) <= window[1]

RECURSIVE Grow(_, _, _, _)
Grow(rows, S, threshold, window) ==
    LET T == S \cup {j \in 1..Len(rows) : \E i \in S : Edge(rows, i, j, threshold, window)}
    IN  IF T = S THEN S ELSE Grow(rows, T, threshold, window)

Components(rows, threshold, window) ==
    {{rows[j].link : j \in Grow(rows, {i}, threshold, window)} : i \in 1..Len(rows)}

BroadRow(cluster_id) ==
    CHOOSE k \in 1..Len(broad_clusters) : broad_clusters[k].cluster_id = cluster_id

SubDf(cluster_id) ==
    LET links == LinksOf(broad_clusters[BroadRow(cluster_id)])
        member(row) == row.link \in links
    IN  SelectSeq(df, member)

(* C2: every table cluster_articles returns (Stage 1, each Stage-2
   re-clustering, the single-stage call of get_cross_feed_clusters) groups
   the articles exactly into the connected components of the graph with an
   edge (i,j) iff similarity >= threshold and (no time window or the two
   publish dates are at most max_time_window_hours apart). *)
C2_ConnectedComponents ==
    /\ pc \notin {"start", "matched", "rematched"} =>
           Partition(broad_clusters) = Components(df, args.stage1_threshold, None)
    /\ \A s \in sub_tables :
           Partition(s.rows) =
               Components(SubDf(s.cluster_id), args.stage2_threshold, args.max_time_window_hours)
    /\ pc \in {"matched", "rematched"} =>
           Partition(all_clusters) = Components(df, args.stage1_threshold, None)

C2_Witness ==
    /\ pc = "clustered"
    /\ args.max_time_window_hours # None
    /\ \E s \in sub_tables :
          LET sub == SubDf(s.cluster_id)
          IN  /\ \E k \in 1..Len(s.rows) : s.rows[k].num_articles >= 2
              /\ \E i, j \in 1..Len(sub) :
                    /\ SimAtLeast(sub[i].embedding, sub[j].embedding, args.stage2_threshold)
                    /\ ~Edge(sub, i, j, args.stage2_threshold, args.max_time_window_hours)
                    /\ \A c \in Partition(s.rows) : ~({sub[i].link, sub[j].link} \subseteq c)

(* C3 (as claimed): with max_time_window_hours = W, no cluster returned by
   two_stage_cluster holds two dated articles more than W hours apart. *)
C3_TimeWindowExclusion ==
    (Returned /\ args.max_time_window_hours # None) =>
        \A k \in 1..Len(all_clusters) :
            \A m1, m2 \in 1..Len(all_clusters[k].articles) :
                LET d1 == all_clusters[k].articles[m1].publish_date
                    d2 == all_clusters[k].articles[m2].publish_date
                IN  (d1 # None /\ d2 # None) =>
                        AbsDiff(d1[1], d2[1]) <= args.max_time_window_hours[1]

(* C4 (as claimed): with a time window given, the run never raises, and an
   article whose publish_date is None is alone in its cluster. *)
C4_NullDateIsolation ==
    (pc \notin {"start", "matched", "rematched"} /\ args.max_time_window_hours # None) =>
        /\ error # "TypeError"
        /\ Returned =>
               \A k \in 1..Len(all_clusters) :
                   (\E m \in 1..Len(all_clusters[k].articles) :
                        all_clusters[k].articles[m].publish_date = None)
                       => all_clusters[k].num_articles = 1

(* C5 (as claimed): a second call with a stage1_threshold at least as
   large returns a partition that refines the one of the first call. *)
C5_FinalMonotone ==
    pc = "reclustered" => Refines(Partition(all_clusters), Partition(prev_run[1].all_clusters))

(* C5 (amended): raising stage1_threshold makes the Stage-1 partition finer
   or equal; the final partition is finer or equal when the first call
   re-clustered no Stage-1 cluster in Stage 2. *)
C5_Stage1Monotone ==
    pc = "reclustered" =>
        /\ Refines(Partition(broad_clusters), Partition(prev_run[1].broad_clusters))
        /\ prev_run[1].refined_ids = {} =>
               /\ refined_ids = {}
               /\ Refines(Partition(all_clusters), Partition(prev_run[1].all_clusters))

C5_Witness ==
    /\ pc = "reclustered"
    /\ args.stage1_threshold > prev_run[1].args.stage1_threshold
    /\ prev_run[1].refined_ids = {}
    /\ Len(all_clusters) > Len(prev_run[1].all_clusters)

(* C6: Stage 2 re-clusters exactly the Stage-1 rows with num_articles >
   max_cluster_size; every other Stage-1 row is in the returned table with
   the same articles, title, feeds and counts. *)
C6_PassThrough ==
    Returned =>
        /\ refined_ids = {broad_clusters[k].cluster_id :
                              k \in {j \in 1..Len(broad_clusters) :
                                        broad_clusters[j].num_articles > args.max_cluster_size}}
        /\ \A k \in 1..Len(broad_clusters) :
               broad_clusters[k].num_articles <= args.max_cluster_size =>
                   \E j \in 1..Len(all_clusters) : SameContent(all_clusters[j], broad_clusters[k])

C6_Witness ==
    /\ pc = "clustered"
    /\ refined_ids # {}
    /\ \E k \in 1..Len(broad_clusters) :
          /\ broad_clusters[k].num_articles = args.max_cluster_size
          /\ \E j \in 1..Len(all_clusters) : SameContent(all_clusters[j], broad_clusters[k])

SubTableOf(cluster_id) == CHOOSE s \in sub_tables : s.cluster_id = cluster_id

(* C7 (as claimed): a returned cluster exceeds max_cluster_size only if it
   is a whole oversized Stage-1 cluster that Stage 2 returned as a single
   cluster; when Stage 2 splits a cluster, no part exceeds the cap. *)
C7_SplitRespectsCap ==
    Returned =>
        /\ \A k \in 1..Len(all_clusters) :
               all_clusters[k].num_articles > args.max_cluster_size =>
                   \E s \in sub_tables :
                       /\ Len(s.rows) = 1
                       /\ LinksOf(s.rows[1]) = LinksOf(all_clusters[k])
        /\ \A s \in sub_tables :
               Len(s.rows) >= 2 =>
                   \A k \in 1..Len(s.rows) : s.rows[k].num_articles <= args.max_cluster_size

(* C7 (amended): a returned cluster exceeds max_cluster_size only if it is
   one of the sub-clusters Stage 2 made of an oversized Stage-1 cluster
   (the whole cluster, or a part that is itself above the cap: Stage 2 runs
   once and does not split its sub-clusters again); no cluster that passed
   Stage 2 untouched exceeds the cap. *)
C7_OversizedOnlyFromStage2 ==
    Returned =>
        \A k \in 1..Len(all_clusters) :
            all_clusters[k].num_articles > args.max_cluster_size =>
                /\ \E s \in sub_tables : \E j \in 1..Len(s.rows) :
                       SameContent(s.rows[j], all_clusters[k])
                /\ \A j \in 1..Len(broad_clusters) :
                       LinksOf(broad_clusters[j]) = LinksOf(all_clusters[k]) =>
                           broad_clusters[j].cluster_id \in refined_ids

C7_Witness ==
    /\ pc = "clustered"
    /\ \E s \in sub_tables :
          /\ Len(s.rows) >= 2
          /\ \E j \in 1..Len(s.rows) :
                /\ s.rows[j].num_articles > args.max_cluster_size
                /\ \E k \in 1..Len(all_clusters) : SameContent(s.rows[j], all_clusters[k])

Ids(rows) == {rows[k].cluster_id : k \in 1..Len(rows)}

IdsFollowSize(rows) ==
    \A a, b \in 1..Len(rows) :
        rows[a].num_articles > rows[b].num_articles => rows[a].cluster_id < rows[b].cluster_id

(* C8 (as claimed): the cluster_ids of the returned table are distinct
   consecutive integers and a cluster with more articles has the smaller
   id. *)
C8_IdsByDescendingSize ==
    Returned =>
        /\ Ids(all_clusters) = 0..(Len(all_clusters) - 1)
        /\ IdsFollowSize(all_clusters)

(* C8 (amended): the cluster_ids are the distinct consecutive integers
   0..k-1 numbering the clusters in the order in which Stage 2 collected
   them (the Stage-1 order, every oversized cluster replaced in place by its
   sub-clusters); the rows are then sorted by descending num_articles; a
   cluster with more articles has the smaller id when Stage 2 re-clustered
   nothing. *)
C8_IdsInCollectionOrder ==
    Returned =>
        /\ Ids(all_clusters) = 0..(Len(all_clusters) - 1)
        /\ Len(refined_clusters) = Len(all_clusters)
        /\ \A k \in 1..Len(all_clusters) :
               SameContent(all_clusters[k], refined_clusters[all_clusters[k].cluster_id + 1])
        /\ \A k \in 1..(Len(all_clusters) - 1) :
               all_clusters[k].num_articles >= all_clusters[k + 1].num_articles
        /\ refined_ids = {} => IdsFollowSize(all_clusters)

C8_Witness ==
    /\ pc = "clustered"
    /\ refined_ids # {}
    /\ ~IdsFollowSize(all_clusters)

Kept(c, r) == c.cluster_id = r.cluster_id /\ SameContent(c, r)

Filtered == pc \in {"filtered", "refiltered", "matched", "rematched"}

(* C9: the cross-feed filter keeps a cluster iff its num_feeds >=
   min_feeds: every row of the output is an input row with enough feeds,
   unaltered, and every such input row is in the output once. *)
C9_FilterKeepsExactly ==
    Filtered =>
        /\ \A k \in 1..Len(all_clusters) :
               all_clusters[k].num_feeds >= args.min_feeds
                   <=> \E j \in 1..Len(cross_feed) : Kept(cross_feed[j], all_clusters[k])
        /\ \A j \in 1..Len(cross_feed) :
               /\ cross_feed[j].num_feeds >= args.min_feeds
               /\ \E k \in 1..Len(all_clusters) : Kept(cross_feed[j], all_clusters[k])
        /\ Cardinality(Ids(cross_feed)) = Len(cross_feed)

C9_Witness ==
    /\ pc = "filtered"
    /\ args.min_feeds = DefaultMinFeeds
    /\ Len(cross_feed) >= 1
    /\ Len(cross_feed) < Len(all_clusters)

(* C10: the filter applied with the same min_feeds to its own output
   returns that output. *)
C10_FilterIdempotent ==
    pc \in {"refiltered", "rematched"} => cross_feed_again = cross_feed

C10_Witness ==
    /\ pc = "refiltered"
    /\ Len(cross_feed_again) >= 1
    /\ Len(cross_feed) < Len(all_clusters)

(* C11 (as claimed): the pipeline of cross_feed_clusters on an input table
   of no rows (and all columns) ends without an error, with an empty table
   whose cluster table has the cluster columns, num_feeds among them. *)
C11_EmptyInputCompletes ==
    (Len(df) = 0 /\ df_columns = InputColumns /\ pc \in {"filtered", "refiltered", "raised"}) =>
        /\ pc # "raised"
        /\ error = "none"
        /\ cross_feed = <<>>
        /\ ClusterColumns \subseteq columns

(* C12 (as claimed): on a table that lacks one of base_url, title, link,
   embedding, every call of cluster_articles raises and returns no table,
   whatever the number of rows. *)
C12_MissingColumnAlwaysFails ==
    (required_cols \ df_columns # {} /\ pc # "start") =>
        /\ pc = "raised"
        /\ error = "ValueError"

(* C12 (amended): on a table of at least one row that lacks one of
   base_url, title, link, embedding, cluster_articles raises ValueError
   before it clusters anything and no table is returned; on a table of no
   rows it returns the empty table without looking at the columns; a
   ValueError is raised in no other case. *)
C12_MissingColumnFailsNonEmpty ==
    /\ (required_cols \ df_columns # {} /\ pc # "start") =>
           IF Len(df) > 0
           THEN /\ pc = "raised"
                /\ error = "ValueError"
                /\ broad_clusters = <<>>
                /\ all_clusters = <<>>
                /\ cross_feed = <<>>
           ELSE /\ error # "ValueError"
                /\ all_clusters = <<>>
    /\ error = "ValueError" => (required_cols \ df_columns # {} /\ Len(df) > 0)

C12_Witness ==
    /\ pc = "raised"
    /\ error = "ValueError"
    /\ Len(df) >= 2
    /\ "link" \notin df_columns

Clique(rows, threshold, window) ==
    \A i, j \in 1..Len(rows) : i # j => Edge(rows, i, j, threshold, window)

(* C13 (as claimed): when Stage 2 has re-clustered an oversized Stage-1
   cluster of which every pair of articles meets stage2_threshold and the
   time window, two_stage_cluster raises no error and the returned table
   holds that cluster exactly once, with all of its articles. *)
C13_UnsplittableKept ==
    \A s \in sub_tables :
        Clique(SubDf(s.cluster_id), args.stage2_threshold, args.max_time_window_hours) =>
            /\ pc # "raised"
            /\ error = "none"
            /\ Cardinality({k \in 1..Len(all_clusters) :
                     LinksOf(all_clusters[k]) = LinksOf(broad_clusters[BroadRow(s.cluster_id)])}) = 1

FeedsOfArticles(row) == {row.articles[m].feed : m \in 1..Len(row.articles)}

CountsAgree(row) ==
    /\ row.num_articles = Len(row.articles)
    /\ row.feeds = FeedsOfArticles(row)
    /\ row.num_feeds = Cardinality(FeedsOfArticles(row))
    /\ row.num_feeds = Cardinality(row.feeds)
    /\ 1 <= row.num_feeds
    /\ row.num_feeds <= row.num_articles

(* C14: in every row of every table cluster_articles and two_stage_cluster
   produce (Stage 1, the Stage-2 sub-tables, the collected list, the
   returned table), num_articles is the number of articles, feeds is the
   set of the articles' feeds, num_feeds is its size, and
   1 <= num_feeds <= num_articles. *)
C14_CountsAgree ==
    /\ \A k \in 1..Len(broad_clusters) : CountsAgree(broad_clusters[k])
    /\ \A s \in sub_tables : \A k \in 1..Len(s.rows) : CountsAgree(s.rows[k])
    /\ \A k \in 1..Len(refined_clusters) : CountsAgree(refined_clusters[k])
    /\ \A k \in 1..Len(all_clusters) : CountsAgree(all_clusters[k])

C14_Witness ==
    /\ pc = "clustered"
    /\ refined_ids # {}
    /\ \E k \in 1..Len(all_clusters) :
          /\ all_clusters[k].num_feeds >= 2
          /\ all_clusters[k].num_feeds < all_clusters[k].num_articles

PublishDates(row) ==
    {row.articles[m].publish_date[1] :
         m \in {x \in 1..Len(row.articles) : row.articles[x].publish_date # None}}

(* C15: in every row of the table cross_feed_clusters returns, when some
   article of the cluster has a publish date, min_published_date and
   max_published_date are the least and the greatest of the articles'
   publish dates, min <= max, and time_span_hours is their difference and
   not negative; when no article has one, the three are null. *)
C15_DateColumns ==
    pc \in {"filtered", "refiltered"} =>
        \A j \in 1..Len(cross_feed) :
            LET row == cross_feed[j]
                ds == PublishDates(row)
            IN  IF ds # {}
                THEN /\ row.min_published_date # None
                     /\ row.max_published_date # None
                     /\ row.time_span_hours # None
                     /\ row.min_published_date[1] \in ds
                     /\ row.max_published_date[1] \in ds
                     /\ \A d \in ds : row.min_published_date[1] <= d /\ d <= row.max_published_date[1]
                     /\ row.min_published_date[1] <= row.max_published_date[1]
                     /\ row.time_span_hours[1] = row.max_published_date[1] - row.min_published_date[1]
                     /\ row.time_span_hours[1] >= 0
                ELSE /\ row.min_published_date = None
                     /\ row.max_published_date = None
                     /\ row.time_span_hours = None

C15_Witness ==
    /\ pc = "filtered"
    /\ \E j \in 1..Len(cross_feed) :
          /\ cross_feed[j].time_span_hours # None
          /\ cross_feed[j].time_span_hours[1] > 0
          /\ \E m \in 1..Len(cross_feed[j].articles) : cross_feed[j].articles[m].publish_date = None

LinkSets(S) == {{<<"link", i>> : i \in c} : c \in S}

(* C16 (as claimed): on the five articles, two_stage_cluster with
   stage1_threshold 0.9 and a 24-hour window returns exactly the clusters
   {A,B}, {C}, {D}, {E}, and the filter with min_feeds 2 then returns
   exactly {A,B}. *)
C16_FiveArticleScenario ==
    pc # "start" =>
        /\ pc # "raised"
        /\ Partition(all_clusters) = LinkSets({{1, 2}, {3}, {4}, {5}})
        /\ pc = "filtered" => Partition(cross_feed) = LinkSets({{1, 2}})

GroupsOfDf ==
    {{df[i].link : i \in {j \in 1..Len(df) : df[j].embedding = e}} :
         e \in {df[i].embedding : i \in 1..Len(df)}}

(* C17: on fifteen articles within the time window, all pairs similar at
   stage1_threshold and only the pairs inside three groups of five similar
   at stage2_threshold, two_stage_cluster with max_cluster_size 10 forms
   one Stage-1 cluster of fifteen and returns exactly the three groups. *)
C17_FifteenArticleScenario ==
    pc # "start" =>
        /\ pc # "raised"
        /\ Len(broad_clusters) = 1
        /\ broad_clusters[1].num_articles = 15
        /\ refined_ids = {broad_clusters[1].cluster_id}
        /\ Len(all_clusters) = 3
        /\ \A k \in 1..3 : all_clusters[k].num_articles = 5
        /\ Partition(all_clusters) = GroupsOfDf

C17_Witness ==
    /\ pc = "clustered"
    /\ Len(df) = 15
    /\ Clique(df, args.stage1_threshold, args.max_time_window_hours)
    /\ \A i, j \in 1..15 :
          SimAtLeast(df[i].embedding, df[j].embedding, args.stage2_threshold)
              <=> df[i].embedding = df[j].embedding
    /\ Cardinality(GroupsOfDf) = 3
    /\ \A g \in GroupsOfDf : Cardinality(g) = 5
    /\ \E i \in 1..14 : df[i].embedding # df[i + 1].embedding /\ df[i].publish_date # df[i + 1].publish_date
    /\ Len(all_clusters) = 3

RowsOf(table) == {table[k] : k \in 1..Len(table)}

Settled(table, boundary) ==
    {row \in RowsOf(table) :
        row.max_published_date # None /\ row.max_published_date[1] < boundary}

(* C18: the table a run writes holds, unaltered, every cluster of the table
   it read whose max_published_date is before the lookback boundary, and
   every other row of it is a cluster the run computed from articles
   published inside the lookback window. *)
C18_HistoricCarriedForward ==
    pc = "merged" =>
        /\ Settled(prev_cluster_table, lookback_boundary(now)) \subseteq RowsOf(cluster_table)
        /\ \A row \in RowsOf(cluster_table) \ Settled(prev_cluster_table, lookback_boundary(now)) :
               /\ row \in RowsOf(cross_feed)
               /\ \A m \in 1..Len(row.articles) :
                      row.articles[m].publish_date[1] >= lookback_boundary(now)

C18_Witness ==
    /\ pc = "merged"
    /\ \E old \in Settled(prev_cluster_table, lookback_boundary(now)) :
          \E fresh \in RowsOf(cross_feed) :
              /\ old \in RowsOf(cluster_table)
              /\ fresh \in RowsOf(cluster_table)
              /\ \E i, j \in 1..Len(df) :
                    /\ df[i].link \in LinksOf(old)
                    /\ df[j].link \in LinksOf(fresh)
                    /\ df[i].embedding = df[j].embedding

KeysOf(S) == {DedupKey(row) : row \in S}

(* C19: the table a run writes consists of rows of the carried-forward
   clusters and of the freshly computed clusters, holds a row for every
   (title, max_published_date) of the two, and no two of its rows have the
   same (title, max_published_date). *)
C19_UnionDeduplicated ==
    pc = "merged" =>
        /\ RowsOf(cluster_table)
               \subseteq Settled(prev_cluster_table, lookback_boundary(now)) \cup RowsOf(cross_feed)
        /\ KeysOf(RowsOf(cluster_table))
               = KeysOf(Settled(prev_cluster_table, lookback_boundary(now)) \cup RowsOf(cross_feed))
        /\ \A i, j \in 1..Len(cluster_table) :
               i # j => DedupKey(cluster_table[i]) # DedupKey(cluster_table[j])

C19_Witness ==
    /\ pc = "merged"
    /\ Len(cross_feed) >= 2
    /\ Len(cluster_table) < Len(cross_feed)

ContentOf(table) ==
    {<<LinksOf(table[k]), table[k].title, table[k].num_articles, table[k].num_feeds>> :
         k \in 1..Len(table)}

(* C20: cross_feed_clusters run again on the same table of articles does
   not raise and returns the same clusters as the run before: the same
   sets of articles, with the same title, num_articles and num_feeds, both
   in the table two_stage_cluster returns and in the filtered table. *)
C20_RerunSameTable ==
    (prev_run # None) =>
        /\ pc = "rerun"
        /\ Len(all_clusters) = Len(prev_run[1].all_clusters)
        /\ ContentOf(all_clusters) = ContentOf(prev_run[1].all_clusters)
        /\ Len(cross_feed) = Len(prev_run[1].cross_feed)
        /\ ContentOf(cross_feed) = ContentOf(prev_run[1].cross_feed)

C20_Witness ==
    /\ pc = "rerun"
    /\ Len(cross_feed) >= 1
    /\ refined_ids # {}
    /\ all_clusters # prev_run[1].all_clusters

(* C21: a run that raises leaves the stored cluster table as it was, and
   the stored table changes only in the step that stores the table a
   completed run returned, to exactly that table. *)
C21_FailedRunWritesNothing ==
    [][/\ (pc' = "raised" => stored' = stored)
       /\ (stored' # stored =>
              /\ pc = "filtered"
              /\ error = "none"
              /\ stored' = <<cross_feed>>)]_vars

C21_Witness ==
    /\ pc = "raised"
    /\ error = "ColumnNotFoundError"
    /\ all_clusters = <<>>
    /\ stored # None
    /\ Len(stored[1]) >= 1

RowsOfTable(rows) == {rows[k] : k \in 1..Len(rows)}

(* C22: in the first job, where no stored table can be loaded, no asset
   raises, rss_feeds_historic returns the fetched table, and add_features
   returns the features of exactly the fetched articles. *)
C22_FirstRunCompletes ==
    (runs = 0) =>
        /\ pc # "raised"
        /\ pc \in {"historic", "featured"} => rss_feeds_historic = <<rss_feeds_latest>>
        /\ pc = "featured" =>
               LinksOfTable(add_features[1]) = LinksOfTable(rss_feeds_latest)

(* C24: a run of rss_feeds_historic leaves a table with one row per link
   that holds every row of the table stored before it, unaltered. *)
C24_HistoricAppendOnly ==
    [][/\ rss_feeds_historic' # None => UniqueLinks(rss_feeds_historic'[1])
       /\ rss_feeds_historic # None =>
              /\ rss_feeds_historic' # None
              /\ RowsOfTable(rss_feeds_historic[1]) \subseteq RowsOfTable(rss_feeds_historic'[1])]_vars

(* C30: a successful run of add_features keeps the rows of its previous
   table as they were, adds rows only for links that table did not have,
   and leaves a table with one row per link whose links are those of
   rss_feeds_historic. *)
C30_FeaturesFollowHistoric ==
    [][(pc = "historic" /\ pc' = "featured") =>
          /\ Len(add_features'[1]) >= Len(add_features[1])
          /\ SubSeq(add_features'[1], 1, Len(add_features[1])) = add_features[1]
          /\ \A k \in (Len(add_features[1]) + 1)..Len(add_features'[1]) :
                 add_features'[1][k].link \notin LinksOfTable(add_features[1])
          /\ UniqueLinks(add_features'[1])
          /\ LinksOfTable(add_features'[1]) = LinksOfTable(rss_feeds_historic[1])]_vars

(* The row of df with the smallest index among the members of a cluster,
   and the union-find root the pair scan of a single-stage call leaves
   for a row of df. *)
FirstMember(row) ==
    CHOOSE i \in 1..Len(df) :
        /\ df[i].link \in LinksOf(row)
        /\ \A j \in 1..Len(df) : df[j].link \in LinksOf(row) => i <= j

RootOf(i) ==
    LET st == ScanPairs(df, df_columns, [parent |-> [x \in 1..Len(df) |-> x], raised |-> FALSE],
                        1, args.stage1_threshold, None)
    IN  find(st.parent, i)[i]

(* C25: in every table cluster_articles produced (the Stage-1 table, the
   table of a single-stage call, and the rows of the final table), the
   title of a cluster is the title of its member with the smallest input
   row index, which is also the first of its articles. *)
C25_TitleOfFirstMember ==
    \A table \in {broad_clusters, all_clusters} :
        \A k \in 1..Len(table) :
            /\ LinksOf(table[k]) \subseteq {df[i].link : i \in 1..Len(df)}
            /\ table[k].title = df[FirstMember(table[k])].title
            /\ table[k].articles[1].link = df[FirstMember(table[k])].link

C25_Witness ==
    /\ pc = "matched"
    /\ \E k \in 1..Len(all_clusters) :
          /\ Len(all_clusters[k].articles) = MaxArticles
          /\ RootOf(FirstMember(all_clusters[k])) # FirstMember(all_clusters[k])
          /\ all_clusters[k].title = df[FirstMember(all_clusters[k])].title

(* C29: cluster_articles on the rows of df in another order ends the same
   way (returns, or raises the same exception) and groups the articles
   into the same sets of links. *)
C29_GroupingOrderIndependent ==
    pc = "permuted" =>
        /\ error = prev_run[1].error
        /\ Partition(all_clusters) = Partition(prev_run[1].all_clusters)

C29_Witness ==
    /\ pc = "permuted"
    /\ args.max_time_window_hours # None
    /\ Len(all_clusters) >= 2
    /\ \E k, k2 \in 1..Len(all_clusters) :
          /\ Len(all_clusters[k].articles) >= 2
          /\ LinksOf(all_clusters[k]) = LinksOf(prev_run[1].all_clusters[k2])
          /\ all_clusters[k].title # prev_run[1].all_clusters[k2].title
          /\ all_clusters[k].cluster_id # prev_run[1].all_clusters[k2].cluster_id

(* C28: when two_stage_cluster returns, every final cluster lies inside
   exactly one Stage-1 cluster, and the sub-table Stage 2 made of a Stage-1
   cluster holds the articles of that cluster and no other. *)
C28_FinalRefinesStage1 ==
    pc = "clustered" =>
        /\ \A k \in 1..Len(all_clusters) :
               Cardinality({b \in 1..Len(broad_clusters) :
                               LinksOf(all_clusters[k]) \subseteq LinksOf(broad_clusters[b])}) = 1
        /\ \A s \in sub_tables :
               UNION Partition(s.rows) = LinksOf(broad_clusters[BroadRow(s.cluster_id)])

C28_Witness ==
    /\ pc = "clustered"
    /\ Len(broad_clusters) >= 2
    /\ \E s \in sub_tables :
          /\ Len(s.rows) >= 1
          /\ \E i \in 1..Len(df) :
                /\ df[i].link \notin LinksOf(broad_clusters[BroadRow(s.cluster_id)])
                /\ df[i].base_url \in broad_clusters[BroadRow(s.cluster_id)].feeds

IsMirror(a, b) ==
    /\ a.left = b.right /\ a.right = b.left
    /\ a.centre_left = b.centre_right /\ a.centre_right = b.centre_left
    /\ a.centre = b.centre /\ a.num_articles = b.num_articles

(* C23 (as claimed): in the flagged table, blindspot_right of a cluster
   equals blindspot_left of a cluster with the mirrored reach-share
   vector, and both flags are 0 where the centre share is 0.7 or more. *)
C23_FlagsMirror ==
    /\ \A i, j \in 1..Len(blindspot_df) :
           IsMirror(blindspot_df[i], blindspot_df[j]) =>
               blindspot_df[i].blindspot_right = blindspot_df[j].blindspot_left
    /\ \A k \in 1..Len(blindspot_df) :
           (blindspot_df[k].centre # None /\ blindspot_df[k].centre[1] >= 70) =>
               /\ blindspot_df[k].blindspot_left = 0
               /\ blindspot_df[k].blindspot_right = 0

CountOf(rows, cluster_id) ==
    Cardinality({k \in 1..Len(rows) : rows[k].cluster_id = cluster_id})

(* C27: no row of the flagged table has both flags set, and the publish
   step lists every cluster of the flagged table exactly once. *)
C27_NeverBothFlags ==
    /\ \A k \in 1..Len(blindspot_df) :
           ~(blindspot_df[k].blindspot_left = 1 /\ blindspot_df[k].blindspot_right = 1)
    /\ pc = "published" =>
           /\ Len(ordered_rows) = Len(blindspot_df)
           /\ \A k \in 1..Len(blindspot_df) :
                  CountOf(ordered_rows, blindspot_df[k].cluster_id) = 1

C27_Witness ==
    /\ pc = "published"
    /\ Len(ordered_rows) = MaxClusters
    /\ \E i, j, k \in 1..Len(ordered_rows) :
          /\ ordered_rows[i].blindspot_left = 1
          /\ ordered_rows[j].blindspot_right = 1
          /\ ordered_rows[k].blindspot_left = 0 /\ ordered_rows[k].blindspot_right = 0
          /\ ordered_rows[k].left = None

LeftOf(rows) == SelectSeq(rows, LAMBDA r : r.blindspot_left = 1)

RightOf(rows) == SelectSeq(rows, LAMBDA r : r.blindspot_right = 1)

Least(a, b) == IF a <= b THEN a ELSE b

MostRecent(selected, flagged, n) ==
    /\ Len(selected) = Least(n \div 2, Len(flagged))
    /\ RowsOfTable(selected) \subseteq RowsOfTable(flagged)
    /\ \A x \in RowsOfTable(selected) : \A y \in RowsOfTable(flagged) \ RowsOfTable(selected) :
           x.max_published_date >= y.max_published_date

Alternating(rows) ==
    \A k \in 1..Least(Len(LeftOf(rows)), Len(RightOf(rows))) :
        /\ rows[2 * k - 1].blindspot_left = 1
        /\ rows[2 * k].blindspot_right = 1

(* C26 (as claimed): build_frontpage(blindspot_df, n) returns at most n
   rows; those of each side are the floor(n/2) most recent clusters
   flagged for that side; left and right alternate for as long as both
   sides have a row of that rank. *)
C26_FrontpageMostRecent ==
    pc = "frontpage" =>
        /\ Len(frontpage) <= args.n
        /\ MostRecent(LeftOf(frontpage), LeftOf(blindspot_df), args.n)
        /\ MostRecent(RightOf(frontpage), RightOf(blindspot_df), args.n)
        /\ Alternating(frontpage)

====
